---------------------------- MODULE Spec2Model ----------------------------
(***************************************************************************)
(* Model of convert_voter_pdf.py: the line parser parse_voter_line, the    *)
(* per-document conversion convert_single_pdf and the interactive menu of  *)
(* main with its top-level exception handlers.                             *)
(*                                                                         *)
(* A text line is a sequence of one-character strings, so that the regular *)
(* expressions of the parser are evaluated character by character.         *)
(***************************************************************************)
EXTENDS Integers, Sequences, FiniteSets, TLC

\* ------------------------------------------------------------------------
\* Character classes of Python's re module, over the characters used here.
\* ------------------------------------------------------------------------
UpperSeq ==
  <<"A","B","C","D","E","F","G","H","I","J","K","L","M",
    "N","O","P","Q","R","S","T","U","V","W","X","Y","Z">>

LowerSeq ==
  <<"a","b","c","d","e","f","g","h","i","j","k","l","m",
    "n","o","p","q","r","s","t","u","v","w","x","y","z">>

DigitChars == {"0","1","2","3","4","5","6","7","8","9"}

SpaceChars == {" ", "\t"}

LetterChars == {UpperSeq[i] : i \in 1..26} \cup {LowerSeq[i] : i \in 1..26}

WordChars == LetterChars \cup DigitChars \cup {"_"}

\* the class [\w\.\-] of the precinct code
CodeChars == WordChars \cup {".", "-"}

\* re.IGNORECASE compares characters after case folding
ToLower(c) ==
  IF \E i \in 1..26 : UpperSeq[i] = c
    THEN LowerSeq[CHOOSE i \in 1..26 : UpperSeq[i] = c]
    ELSE c

\* Number of characters of the maximal run of class C that starts at s[i]:
\* what a greedy C* consumes at position i.
RECURSIVE Run(_, _, _)
Run(s, i, C) ==
  IF i >= 1 /\ i <= Len(s) /\ s[i] \in C THEN 1 + Run(s, i + 1, C) ELSE 0

\* str.strip(): leading and trailing whitespace removed
Strip(s) ==
  LET keep == {i \in 1..Len(s) : s[i] \notin SpaceChars}
  IN  IF keep = {} THEN <<>>
      ELSE SubSeq(s, CHOOSE i \in keep : \A j \in keep : i <= j,
                     CHOOSE i \in keep : \A j \in keep : j <= i)

\* ------------------------------------------------------------------------
\* parse_voter_line
\* ------------------------------------------------------------------------
MinLineLen == 20
MinSeqDigits == 1
MaxSeqDigits == 4
MinIdDigits == 9
MaxIdDigits == 12

\* The literals of skip_patterns, each anchored at the start of the line by ^.
SkipKeywords ==
  { <<"N","o",".">>,
    <<"N","a","m","e">>,
    <<"S","t","a","t","e"," ","I","D">>,
    <<"P","r","e","c","i","n","c","t">>,
    <<"C","o","u","n","t","y"," ","N","a","m","e">>,
    <<"E","l","e","c","t","i","o","n"," ","N","a","m","e">>,
    <<"R","e","p","o","r","t">>,
    <<"F","r","o","m">>,
    <<"T","o">>,
    <<"e","P","u","l","s","e">>,
    <<"V","o","t","e","r"," ","C","h","e","c","k","-","i","n">> }

\* kw occurs in s at position i, compared case-insensitively
OccursAt(s, kw, i) ==
  /\ i >= 1
  /\ i + Len(kw) - 1 <= Len(s)
  /\ \A k \in 1..Len(kw) : ToLower(s[i + k - 1]) = ToLower(kw[k])

\* the pattern without its anchor: re.search then finds kw anywhere in the line
SkipMatchAnywhere(line, kw) == \E i \in 1..Len(line) : OccursAt(line, kw, i)

\* re.search(r"^kw", line, re.IGNORECASE): without re.MULTILINE the anchor ^
\* matches at the start of the string only.
SkipMatch(line, kw) == OccursAt(line, kw, 1)

\* any(re.search(p, line, re.IGNORECASE) for p in skip_patterns)
IsSkipped(line) == \E kw \in SkipKeywords : SkipMatch(line, kw)

None == [k \in {} |-> <<>>]

IsNone(r) == DOMAIN r = {}

\* the tail with \d{9,} for the identifier: no upper limit on its digits
TailMatchUnbounded(s, q) ==
  LET k2 == Run(s, q, SpaceChars)
      d  == q + k2
      m  == Run(s, d, DigitChars)
      p3 == d + m
      k3 == Run(s, p3, SpaceChars)
      sp == p3 + k3
      k4 == Run(s, sp + 1, SpaceChars)
      c  == sp + 1 + k4
      n  == Run(s, c, CodeChars)
  IN  [ ok |-> /\ k2 >= 1
               /\ m >= MinIdDigits
               /\ k3 >= 1
               /\ sp <= Len(s) /\ s[sp] = "S"
               /\ k4 >= 1
               /\ n >= 1,
        id |-> <<d, p3 - 1>>,
        precinct |-> <<sp, c + n - 1>> ]

\* The part of the template after the name:
\*     \s+(\d{9,12})\s+(S\s+[\w\.\-]+)
\* tried at position q.  Every quantifier in it is greedy and is followed by
\* a character outside its own class, so giving back characters never helps:
\* it matches iff the maximal runs fit.  Result: the spans of groups 3 and 4.
TailMatch(s, q) ==
  LET k2 == Run(s, q, SpaceChars)
      d  == q + k2
      m  == Run(s, d, DigitChars)
      p3 == d + m
      k3 == Run(s, p3, SpaceChars)
      sp == p3 + k3
      k4 == Run(s, sp + 1, SpaceChars)
      c  == sp + 1 + k4
      n  == Run(s, c, CodeChars)
  IN  [ ok |-> /\ k2 >= 1
               /\ m >= MinIdDigits /\ m <= MaxIdDigits
               /\ k3 >= 1
               /\ sp <= Len(s) /\ s[sp] = "S"
               /\ k4 >= 1
               /\ n >= 1,
        id |-> <<d, p3 - 1>>,
        precinct |-> <<sp, c + n - 1>> ]

\* The name group (.+?) is lazy: the regex engine extends it one character at
\* a time and stops at the first end position from which the tail matches.
\* the name group written greedy, (.+): the longest name wins
NameEndGreedy(s, from) ==
  LET ends == {e \in from..Len(s) : TailMatch(s, e + 1).ok}
  IN  CHOOSE e \in ends : \A e2 \in ends : e2 <= e

NameEnd(s, from) ==
  LET ends == {e \in from..Len(s) : TailMatch(s, e + 1).ok}
  IN  CHOOSE e \in ends : \A e2 \in ends : e <= e2

\* re.search(pattern, line) for
\*     ^\s*(\d{1,4})\s+(.+?)\s+(\d{9,12})\s+(S\s+[\w\.\-]+)
\* Result: whether it matches and the spans of the four groups.  The greedy
\* \s+ before the name first takes all k1 spaces and gives them back one by
\* one only when no name end works.
TemplateMatch(s) ==
  LET a    == Run(s, 1, SpaceChars)
      n1   == Run(s, a + 1, DigitChars)
      k1   == Run(s, a + n1 + 1, SpaceChars)
      head == n1 >= MinSeqDigits /\ n1 <= MaxSeqDigits /\ k1 >= 1
      \* the numbers of spaces the first \s+ can keep with the match succeeding
      good == {k \in 1..k1 :
                 \E e \in (a + n1 + k + 1)..Len(s) : TailMatch(s, e + 1).ok}
  IN  IF ~head \/ good = {}
        THEN [ok |-> FALSE]
        ELSE LET k  == CHOOSE x \in good : \A y \in good : y <= x
                 ns == a + n1 + k + 1
                 ne == NameEnd(s, ns)
                 t  == TailMatch(s, ne + 1)
             IN  [ ok |-> TRUE,
                   no |-> <<a + 1, a + n1>>,
                   name |-> <<ns, ne>>,
                   id |-> t.id,
                   precinct |-> t.precinct ]

Group(s, span) == SubSeq(s, span[1], span[2])

parse_voter_line(raw) ==
  LET line == Strip(raw)
  IN  IF Len(line) = 0 \/ Len(line) < MinLineLen THEN None
      ELSE IF IsSkipped(line) THEN None
      ELSE LET m == TemplateMatch(line)
           IN  IF m.ok
                 THEN ("No" :> Strip(Group(line, m.no)))
                   @@ ("Name" :> Strip(Group(line, m.name)))
                   @@ ("State ID" :> Strip(Group(line, m.id)))
                   @@ ("Precinct" :> Strip(Group(line, m.precinct)))
                 ELSE None


\* ------------------------------------------------------------------------
\* The environment: file names, the platform, documents and their pages.
\* ------------------------------------------------------------------------
MaxPages == 3
MaxBatchPages == 2

\* names of the PDF files the folder may hold
FileA == <<"a",".","p","d","f">>
FileAUpper == <<"a",".","P","D","F">>
FileB == <<"b",".","p","d","f">>
Files == {FileA, FileAUpper, FileB}

\* the order in which the directory lists its entries
FileOrder == <<FileA, FileB, FileAUpper>>

\* what the user may type as a custom output name and as a wrong path
CustomOut == <<"o","u","t",".","c","s","v">>
NoSuchFile == <<"x",".","p","d","f">>

\* text lines of the sample pages
LineHeader ==
  <<"N","o","."," "," ","N","a","m","e"," "," ","S","t","a","t","e"," ","I","D",
    " "," ","P","r","e","c","i","n","c","t">>
LineBlank == <<" "," ">>
LineJohn ==
  <<" ","1","2"," "," ","J","O","H","N"," ","S","M","I","T","H"," "," ",
    "1","2","3","4","5","6","7","8","9"," "," ","S"," ","P","C","T",".","4"," ">>
\* the identifier of LineJohn again, with another sequence number, name and precinct
LineJon ==
  <<"4","0"," "," ","J","O","N"," ","S","M","Y","T","H"," "," ",
    "1","2","3","4","5","6","7","8","9"," "," ","S"," ","P","C","T",".","7">>
LineJane ==
  <<"5"," "," ","J","A","N","E"," ","D","O","E"," "," ",
    "9","8","7","6","5","4","3","2","1","0"," "," ","S"," ","1","-","A">>

\* A page is named by a key; extract_text gives its text, already split at
\* "\n" (text.split("\n")), gives nothing ("none") or raises ("fail").
TextPages == {"hdr", "p1", "p2", "p3"}
PageKeys == TextPages \cup {"none", "fail"}

SplitText(page) ==
  CASE page = "hdr" -> <<LineHeader, LineBlank>>
    [] page = "p1" -> <<LineHeader, LineJohn, LineJane>>
    [] page = "p2" -> <<LineJon, LineBlank, LineJohn>>
    [] page = "p3" -> <<LineJane>>
    [] OTHER -> <<>>

\* What is stored at a path when convert_single_pdf looks at it: nothing, a
\* file pdfplumber.open cannot open, or a document of 1..MaxPages pages.
Missing == <<"missing">>
Unopenable == <<"unopenable">>
DocumentsOf(keys, n) == UNION {[1..k -> keys] : k \in 1..n}

\* the documents a single conversion is checked on
Documents == DocumentsOf(PageKeys, MaxPages)

\* the documents the files of a menu session hold
BatchPageKeys == {"p1", "none", "fail"}
BatchDocuments == DocumentsOf(BatchPageKeys, MaxBatchPages)

IsDocument(f) == f # Missing /\ f # Unopenable

\* ------------------------------------------------------------------------
\* pathlib
\* ------------------------------------------------------------------------
LastDot(name) ==
  LET dots == {i \in 1..Len(name) : name[i] = "."}
  IN  IF dots = {} THEN 0 ELSE CHOOSE i \in dots : \A j \in dots : j <= i

\* Path.stem: the name without its last suffix
Stem(name) ==
  IF LastDot(name) <= 1 THEN name ELSE SubSeq(name, 1, LastDot(name) - 1)

ConvertedSuffix ==
  <<"_","c","o","n","v","e","r","t","e","d",".","c","s","v">>

\* pdf_path.with_name(f"{pdf_path.stem}_converted.csv")
DefaultOutput(pdf) == Stem(pdf) \o ConvertedSuffix

Fold(name) == [i \in 1..Len(name) |-> ToLower(name[i])]

\* two names denote the same directory entry
SameEntry(ci, f, g) == IF ci THEN Fold(f) = Fold(g) ELSE f = g

\* Path.exists() and is_file()
Exists(ci, dir, p) == \E f \in dir : SameEntry(ci, f, p)

EndsWith(name, suffix) ==
  /\ Len(name) >= Len(suffix)
  /\ SubSeq(name, Len(name) - Len(suffix) + 1, Len(name)) = suffix

\* folder.glob("*" + suffix): the pattern is matched against the names as the
\* platform compares names (ignoring case on a case-insensitive platform)
Glob(ci, dir, suffix) ==
  SelectSeq(FileOrder,
            LAMBDA f : /\ f \in dir
                       /\ IF ci THEN EndsWith(Fold(f), Fold(suffix))
                                ELSE EndsWith(f, suffix))

PdfFiles(ci, dir) ==
  Glob(ci, dir, <<".","p","d","f">>) \o Glob(ci, dir, <<".","P","D","F">>)

\* ------------------------------------------------------------------------
\* pandas
\* ------------------------------------------------------------------------
\* drop_duplicates with keep="last" instead of keep="first"
DropDuplicatesKeepLast(recs) ==
  LET keep == {i \in 1..Len(recs) :
                 \A j \in (i + 1)..Len(recs) :
                   recs[j]["State ID"] # recs[i]["State ID"]}
      F[i \in 0..Len(recs)] ==
        IF i = 0 THEN <<>>
        ELSE IF i \in keep THEN Append(F[i - 1], recs[i]) ELSE F[i - 1]
  IN  F[Len(recs)]

\* df.drop_duplicates(subset=["State ID"], keep="first")
DropDuplicates(recs) ==
  LET keep == {i \in 1..Len(recs) :
                 \A j \in 1..(i - 1) : recs[j]["State ID"] # recs[i]["State ID"]}
      F[i \in 0..Len(recs)] ==
        IF i = 0 THEN <<>>
        ELSE IF i \in keep THEN Append(F[i - 1], recs[i]) ELSE F[i - 1]
  IN  F[Len(recs)]

\* ------------------------------------------------------------------------
\* State
\* ------------------------------------------------------------------------
VARIABLES
  pc,              \* where the program is
  exc,             \* the exception that ended the process, or "none"
  excFrom,         \* the function that raised it
  out,             \* what the last step logged and printed (the separator
                   \* line that main prints after a command is left out)
  caseInsensitive, \* the platform compares file names ignoring case
  folder,          \* the names of the PDF files in the folder
  csv,             \* output path -> the document and rows written there since
                   \* the current menu command began
  mode,            \* "single" or "bulk": the caller of convert_single_pdf
  pdf_files,       \* main: the list of the bulk loop
  idx,             \* main: position of the bulk loop in pdf_files
  success_count,   \* main
  total_records,   \* main
  pdf_path,        \* convert_single_pdf: argument
  output_csv,      \* convert_single_pdf: argument
  file,            \* what is stored at pdf_path
  page_num,        \* convert_single_pdf: pages visited so far
  lines,           \* convert_single_pdf: lines of the current page still to parse
  records,         \* convert_single_pdf: the accumulator
  df,              \* convert_single_pdf: the deduplicated frame
  ret,             \* the value convert_single_pdf returned last
  input,           \* parser harness: the line handed to parse_voter_line
  result           \* parser harness: what parse_voter_line returned

vars ==
  <<pc, exc, excFrom, out, caseInsensitive, folder, csv, mode, pdf_files, idx,
    success_count, total_records, pdf_path, output_csv, file, page_num, lines,
    records, df, ret, input, result>>

envVars == <<caseInsensitive, folder>>
mainVars == <<mode, pdf_files, idx, success_count, total_records>>
callVars == <<pdf_path, output_csv, file, page_num, lines, records, df>>
excVars == <<exc, excFrom>>
harnessVars == <<input, result>>

NoFile == [src |-> <<>>, rows |-> <<>>]
NoPath == <<>>
\* ret while the call is running
Pending == 0 - 1
OutputPaths == {DefaultOutput(f) : f \in Files} \cup {CustomOut}
NoFiles == [o \in OutputPaths |-> NoFile]

ProgressEvery == 10

Msg(chan, text) == <<chan, text>>

\* a folder the platform can hold: no two entries with the same name
Folders(ci) ==
  {d \in SUBSET Files : \A f, g \in d : SameEntry(ci, f, g) => f = g}

Init ==
  /\ pc = "menu"
  /\ exc = "none"
  /\ excFrom = "none"
  /\ out = <<>>
  /\ caseInsensitive \in BOOLEAN
  /\ folder \in Folders(caseInsensitive)
  /\ csv = NoFiles
  /\ mode = "single"
  /\ pdf_files = <<>>
  /\ idx = 0
  /\ success_count = 0
  /\ total_records = 0
  /\ pdf_path = NoPath
  /\ output_csv = NoPath
  /\ file = Missing
  /\ page_num = 0
  /\ lines = <<>>
  /\ records = <<>>
  /\ df = <<>>
  /\ ret = 0
  /\ input = <<>>
  /\ result = None

\* ------------------------------------------------------------------------
\* Exceptions: the handlers around main() in the __main__ block
\* ------------------------------------------------------------------------
\* An exception that nothing inside main catches unwinds to the __main__
\* block, whose handlers report it; the process then ends.
\* a handler placed inside the while loop: the error is reported and the menu
\* is shown again
HandlerInsideLoop(e, from) ==
  /\ pc' = IF e = "KeyboardInterrupt" THEN "exited" ELSE "menu"
  /\ exc' = e
  /\ excFrom' = from
  /\ out' = IF e = "KeyboardInterrupt"
              THEN <<Msg("print", "Operation cancelled by user")>>
              ELSE <<Msg("logger.error", "Unexpected error"),
                     Msg("print", "Unexpected error")>>
  /\ UNCHANGED <<envVars, csv, mainVars, callVars, ret, harnessVars>>

TopLevelHandler(e, from) ==
  /\ pc' = "exited"
  /\ exc' = e
  /\ excFrom' = from
  /\ out' = IF e = "KeyboardInterrupt"
              THEN <<Msg("print", "Operation cancelled by user")>>
              ELSE <<Msg("logger.error", "Unexpected error"),
                     Msg("print", "Unexpected error")>>
  /\ UNCHANGED <<envVars, csv, mainVars, callVars, ret, harnessVars>>

InMain == pc \in {"menu", "bulk"}
InCall == pc \in {"exists", "pages", "lines", "write"}

\* Ctrl-C at any point of the run
Interrupt ==
  /\ InMain \/ InCall
  /\ TopLevelHandler("KeyboardInterrupt",
                     IF InMain THEN "main" ELSE "convert_single_pdf")

\* input() raises EOFError when standard input is closed
InputEOF ==
  /\ pc = "menu"
  /\ TopLevelHandler("EOFError", "main")

\* ------------------------------------------------------------------------
\* convert_single_pdf
\* ------------------------------------------------------------------------
\* the call: the arguments are bound and the locals are fresh
Call(p, o) ==
  /\ ret' = Pending
  /\ pdf_path' = p
  /\ output_csv' = o
  /\ file' \in {Missing, Unopenable} \cup BatchDocuments
  /\ page_num' = 0
  /\ lines' = <<>>
  /\ records' = <<>>
  /\ df' = <<>>
  /\ pc' = "exists"

\* return r: the locals are gone; in bulk mode the loop body of main counts
\* the result and goes on to the next file, in single mode main prints the
\* separator and shows the menu again
Return(r) ==
  /\ ret' = r
  /\ pdf_path' = NoPath
  /\ output_csv' = NoPath
  /\ file' = Missing
  /\ page_num' = 0
  /\ lines' = <<>>
  /\ records' = <<>>
  /\ df' = <<>>
  /\ IF mode = "bulk"
       THEN /\ success_count' = IF r > 0 THEN success_count + 1 ELSE success_count
            /\ total_records' = IF r > 0 THEN total_records + r ELSE total_records
            /\ idx' = idx + 1
            /\ pc' = "bulk"
            /\ UNCHANGED <<mode, pdf_files>>
       ELSE /\ pc' = "menu"
            /\ UNCHANGED mainVars

ErrorProcessing ==
  <<Msg("logger.error", "Error processing"), Msg("print", "Error processing")>>

ConvNotFound ==
  /\ pc = "exists"
  /\ file = Missing
  /\ out' = <<Msg("logger.error", "PDF not found"), Msg("print", "PDF not found")>>
  /\ Return(0)
  /\ UNCHANGED <<envVars, csv, excVars, harnessVars>>

ConvOpen ==
  /\ pc = "exists"
  /\ IsDocument(file)
  /\ out' = <<Msg("logger.info", "Starting conversion")>>
  /\ records' = <<>>
  /\ pc' = "pages"
  /\ UNCHANGED <<envVars, csv, excVars, mainVars, pdf_path, output_csv, file,
                 page_num, lines, df, ret, harnessVars>>

\* an except clause that returns the number of records read so far
AbortReturnsCount(before) ==
  /\ out' = before \o ErrorProcessing
  /\ Return(Len(records))
  /\ UNCHANGED <<envVars, csv, excVars, harnessVars>>

\* the except clause of the try block: report and return 0; before is what
\* the step logged before the exception was raised
Abort(before) ==
  /\ out' = before \o ErrorProcessing
  /\ Return(0)
  /\ UNCHANGED <<envVars, csv, excVars, harnessVars>>

ConvOpenFail ==
  /\ pc = "exists"
  /\ file = Unopenable
  /\ Abort(<<Msg("logger.info", "Starting conversion")>>)

AtPage == pc = "pages" /\ page_num < Len(file)

\* [line.strip() for line in text.split("\n") if line.strip()]
PageLines(split) ==
  LET stripped == [i \in 1..Len(split) |-> Strip(split[i])]
  IN  SelectSeq(stripped, LAMBDA l : l # <<>>)

ConvExtract ==
  /\ AtPage
  /\ file[page_num + 1] \in TextPages
  /\ page_num' = page_num + 1
  /\ lines' = PageLines(SplitText(file[page_num + 1]))
  /\ pc' = "lines"
  /\ out' = <<>>
  /\ UNCHANGED <<envVars, csv, excVars, mainVars, pdf_path, output_csv, file,
                 records, df, ret, harnessVars>>

\* if not text: continue
ConvNoText ==
  /\ AtPage
  /\ file[page_num + 1] = "none"
  /\ page_num' = page_num + 1
  /\ out' = <<>>
  /\ UNCHANGED <<pc, envVars, csv, excVars, mainVars, pdf_path, output_csv, file,
                 lines, records, df, ret, harnessVars>>

ConvExtractFail ==
  /\ AtPage
  /\ file[page_num + 1] = "fail"
  /\ Abort(<<>>)

\* records.insert(0, parsed) instead of records.append(parsed)
AccumulateInFront(recs, parsed) ==
  IF IsNone(parsed) THEN recs ELSE <<parsed>> \o recs

Accumulate(recs, parsed) == IF IsNone(parsed) THEN recs ELSE Append(recs, parsed)

ConvLine ==
  /\ pc = "lines"
  /\ lines # <<>>
  /\ records' = Accumulate(records, parse_voter_line(Head(lines)))
  /\ lines' = Tail(lines)
  /\ out' = <<>>
  /\ UNCHANGED <<pc, envVars, csv, excVars, mainVars, pdf_path, output_csv, file,
                 page_num, df, ret, harnessVars>>

ConvPageDone ==
  /\ pc = "lines"
  /\ lines = <<>>
  /\ out' = IF page_num % ProgressEvery = 0 \/ page_num = Len(file)
              THEN <<Msg("print", "Page processed")>>
              ELSE <<>>
  /\ pc' = "pages"
  /\ UNCHANGED <<envVars, csv, excVars, mainVars, callVars, ret, harnessVars>>

AfterPages == pc = "pages" /\ page_num = Len(file)

\* without the "if not records" return: an empty frame is written
ConvNoRecordsWritesFile ==
  /\ AfterPages
  /\ records = <<>>
  /\ csv' = [csv EXCEPT ![output_csv] = [src |-> pdf_path, rows |-> <<>>]]
  /\ out' = <<Msg("logger.info", "SUCCESS"), Msg("print", "Converted")>>
  /\ Return(0)
  /\ UNCHANGED <<envVars, excVars, harnessVars>>

ConvNoRecords ==
  /\ AfterPages
  /\ records = <<>>
  /\ out' = <<Msg("print", "No voter records found")>>
  /\ Return(0)
  /\ UNCHANGED <<envVars, csv, excVars, harnessVars>>

ConvDedup ==
  /\ AfterPages
  /\ records # <<>>
  /\ df' = DropDuplicates(records)
  /\ out' = IF Len(df') # Len(records)
              THEN <<Msg("logger.info", "Removed duplicate State IDs")>>
              ELSE <<>>
  /\ pc' = "write"
  /\ UNCHANGED <<envVars, csv, excVars, mainVars, pdf_path, output_csv, file,
                 page_num, lines, records, ret, harnessVars>>

\* df.to_csv(output_csv, ...) and the success report
ConvWrite ==
  /\ pc = "write"
  /\ csv' = [csv EXCEPT ![output_csv] = [src |-> pdf_path, rows |-> df]]
  /\ out' = <<Msg("logger.info", "SUCCESS"), Msg("print", "Converted")>>
  /\ Return(Len(df))
  /\ UNCHANGED <<envVars, excVars, harnessVars>>

\* df.to_csv raises (the target is locked, read-only or in a missing folder);
\* the call is outside the try block, and main has no handler either
ConvWriteFail ==
  /\ pc = "write"
  /\ TopLevelHandler("OSError", "convert_single_pdf")

\* ------------------------------------------------------------------------
\* main
\* ------------------------------------------------------------------------
SingleNotFound ==
  /\ pc = "menu"
  /\ \E p \in Files \cup {NoSuchFile} :
       /\ ~Exists(caseInsensitive, folder, p)
       /\ out' = <<Msg("print", "File not found or not a file")>>
  /\ UNCHANGED <<pc, envVars, csv, excVars, mainVars, callVars, ret, harnessVars>>

SingleStart ==
  /\ pc = "menu"
  /\ \E p \in Files, custom \in BOOLEAN :
       /\ Exists(caseInsensitive, folder, p)
       /\ Call(p, IF custom THEN CustomOut ELSE DefaultOutput(p))
  /\ mode' = "single"
  /\ csv' = NoFiles
  /\ out' = <<>>
  /\ UNCHANGED <<envVars, excVars, pdf_files, idx, success_count,
                 total_records, harnessVars>>

BulkNoFolder ==
  /\ pc = "menu"
  /\ out' = <<Msg("print", "Folder not found")>>
  /\ UNCHANGED <<pc, envVars, csv, excVars, mainVars, callVars, ret, harnessVars>>

BulkEmpty ==
  /\ pc = "menu"
  /\ PdfFiles(caseInsensitive, folder) = <<>>
  /\ out' = <<Msg("print", "No PDF files found")>>
  /\ UNCHANGED <<pc, envVars, csv, excVars, mainVars, callVars, ret, harnessVars>>

BulkStart ==
  /\ pc = "menu"
  /\ PdfFiles(caseInsensitive, folder) # <<>>
  /\ pdf_files' = PdfFiles(caseInsensitive, folder)
  /\ mode' = "bulk"
  /\ idx' = 1
  /\ success_count' = 0
  /\ total_records' = 0
  /\ out' = <<Msg("print", "Starting bulk conversion")>>
  /\ pc' = "bulk"
  /\ csv' = NoFiles
  /\ UNCHANGED <<envVars, excVars, callVars, ret, harnessVars>>

BulkNext ==
  /\ pc = "bulk"
  /\ idx <= Len(pdf_files)
  /\ Call(pdf_files[idx], DefaultOutput(pdf_files[idx]))
  /\ out' = <<>>
  /\ UNCHANGED <<envVars, csv, excVars, mainVars, harnessVars>>

BulkDone ==
  /\ pc = "bulk"
  /\ idx > Len(pdf_files)
  /\ out' = <<Msg("print", "BULK CONVERSION COMPLETE")>>
  /\ pc' = "menu"
  /\ UNCHANGED <<envVars, csv, excVars, mainVars, callVars, ret, harnessVars>>

ChooseExit ==
  /\ pc = "menu"
  /\ pc' = "exited"
  /\ out' = <<Msg("print", "Thank you")>>
  /\ UNCHANGED <<envVars, csv, excVars, mainVars, callVars, ret, harnessVars>>

InvalidChoice ==
  /\ pc = "menu"
  /\ out' = <<Msg("print", "Invalid choice")>>
  /\ UNCHANGED <<pc, envVars, csv, excVars, mainVars, callVars, ret, harnessVars>>

Next ==
  \/ SingleNotFound
  \/ SingleStart
  \/ BulkNoFolder
  \/ BulkEmpty
  \/ BulkStart
  \/ BulkNext
  \/ BulkDone
  \/ ChooseExit
  \/ InvalidChoice
  \/ InputEOF
  \/ Interrupt
  \/ ConvNotFound
  \/ ConvOpen
  \/ ConvOpenFail
  \/ ConvExtract
  \/ ConvNoText
  \/ ConvExtractFail
  \/ ConvLine
  \/ ConvPageDone
  \/ ConvNoRecords
  \/ ConvDedup
  \/ ConvWrite
  \/ ConvWriteFail

Spec == Init /\ [][Next]_vars

\* ------------------------------------------------------------------------
\* One call of convert_single_pdf, on every document of up to MaxPages pages
\* ------------------------------------------------------------------------
InitConvert ==
  /\ pc = "exists"
  /\ exc = "none"
  /\ excFrom = "none"
  /\ out = <<>>
  /\ caseInsensitive = FALSE
  /\ folder = {FileA}
  /\ csv = NoFiles
  /\ mode = "single"
  /\ pdf_files = <<>>
  /\ idx = 0
  /\ success_count = 0
  /\ total_records = 0
  /\ pdf_path = FileA
  /\ output_csv = DefaultOutput(FileA)
  /\ file \in {Missing, Unopenable} \cup Documents
  /\ page_num = 0
  /\ lines = <<>>
  /\ records = <<>>
  /\ df = <<>>
  /\ ret = Pending
  /\ input = <<>>
  /\ result = None

NextConvert ==
  \/ ConvNotFound
  \/ ConvOpen
  \/ ConvOpenFail
  \/ ConvExtract
  \/ ConvNoText
  \/ ConvExtractFail
  \/ ConvLine
  \/ ConvPageDone
  \/ ConvNoRecords
  \/ ConvDedup
  \/ ConvWrite
  \/ ConvWriteFail

SpecConvert == InitConvert /\ [][NextConvert]_vars

\* ------------------------------------------------------------------------
\* parse_voter_line applied to the lines of a report
\* ------------------------------------------------------------------------
MaxNameWords == 2

\* A report line is laid out from its fields: sequence number, name,
\* identifier, an optional polling place, precinct, separated by sep.
LineOf(in) ==
  in.no \o in.sep \o in.name \o in.sep \o in.id \o in.sep
    \o (IF in.place = <<>> THEN <<>> ELSE in.place \o in.sep) \o in.precinct

NameWords ==
  { <<"A","L">>, <<"T","O","N","Y">>, <<"N","a","m","e">> }

RECURSIVE JoinWords(_)
JoinWords(ws) ==
  IF Len(ws) = 1 THEN ws[1] ELSE ws[1] \o <<" ">> \o JoinWords(Tail(ws))

PlainNames ==
  {JoinWords(ws) : ws \in UNION {[1..n -> NameWords] : n \in 1..MaxNameWords}}

\* a name that holds an identifier and a precinct code of its own
NestedName ==
  <<"A","L"," ","1","1","1","2","2","2","3","3","3"," ","S"," ","9"," ","Z","O","E">>

NoFields == {<<"5">>, <<"1","2">>, <<"1","2","3","4">>, <<"1","2","3","4","5">>,
             <<"N","O",".">>}

ValidNo == {<<"5">>, <<"1","2">>, <<"1","2","3","4">>}

IdFields ==
  { <<"1","2","3","4","5","6","7","8">>,
    <<"1","2","3","4","5","6","7","8","9">>,
    <<"1","2","3","4","5","6","7","8","9","0","1","2">>,
    <<"1","2","3","4","5","6","7","8","9","0","1","2","3">> }

ValidId ==
  { <<"1","2","3","4","5","6","7","8","9">>,
    <<"1","2","3","4","5","6","7","8","9","0","1","2">>,
    <<"9","8","7","6","5","4","3","2","1">> }

PlaceCentral == <<"C","E","N","T","R","A","L"," ","L","I","B","R","A","R","Y">>
PlaceSMain == <<"S"," ","M","A","I","N">>
PlaceFields == {<<>>, PlaceCentral, PlaceSMain}

PrecinctFields ==
  { <<"S"," ","P","C","T",".","4">>, <<"S"," ","1">>, <<"S"," ","1","-","A">>,
    <<"P","C","T",".","4">> }

ValidPrecinct ==
  { <<"S"," ","P","C","T",".","4">>, <<"S"," ","1">>, <<"S"," ","1","-","A">>,
    <<"S"," ","P","C","T",".","2">> }

SepFields == {<<" ">>, <<" "," ">>}

\* "12  JOHN SMITH  123456789  S PCT.4"
ExampleJohn ==
  [ no |-> <<"1","2">>,
    name |-> <<"J","O","H","N"," ","S","M","I","T","H">>,
    id |-> <<"1","2","3","4","5","6","7","8","9">>,
    place |-> <<>>,
    precinct |-> <<"S"," ","P","C","T",".","4">>,
    sep |-> <<" "," ">> ]

\* "5  JANE DOE  987654321  CENTRAL LIBRARY  S PCT.2"
ExampleJane ==
  [ no |-> <<"5">>,
    name |-> <<"J","A","N","E"," ","D","O","E">>,
    id |-> <<"9","8","7","6","5","4","3","2","1">>,
    place |-> PlaceCentral,
    precinct |-> <<"S"," ","P","C","T",".","2">>,
    sep |-> <<" "," ">> ]

ParseInputs ==
  [ no : NoFields, name : PlainNames \cup {NestedName}, id : IdFields,
    place : PlaceFields, precinct : PrecinctFields, sep : SepFields ]
  \cup {ExampleJohn, ExampleJane}

InitParse ==
  /\ pc = "parse"
  /\ input \in ParseInputs
  /\ result = None
  /\ exc = "none"
  /\ excFrom = "none"
  /\ out = <<>>
  /\ caseInsensitive = FALSE
  /\ folder = {}
  /\ csv = NoFiles
  /\ mode = "single"
  /\ pdf_files = <<>>
  /\ idx = 0
  /\ success_count = 0
  /\ total_records = 0
  /\ pdf_path = NoPath
  /\ output_csv = NoPath
  /\ file = Missing
  /\ page_num = 0
  /\ lines = <<>>
  /\ records = <<>>
  /\ df = <<>>
  /\ ret = 0

ParseLine ==
  /\ pc = "parse"
  /\ result' = parse_voter_line(LineOf(input))
  /\ pc' = "parsed"
  /\ UNCHANGED <<input, excVars, out, envVars, csv, mainVars, callVars, ret>>

NextParse == ParseLine

SpecParse == InitParse /\ [][NextParse]_vars

\* ------------------------------------------------------------------------
\* Properties
\* ------------------------------------------------------------------------
StateId(r) == r["State ID"]

\* the lines of pages 1..n of document f, in document order
RECURSIVE LinesUpTo(_, _)
LinesUpTo(f, n) ==
  IF n = 0 THEN <<>>
  ELSE LinesUpTo(f, n - 1) \o PageLines(SplitText(f[n]))

AllLines(f) == LinesUpTo(f, Len(f))

\* the lines the pass has parsed so far
SeenLines ==
  IF pc = "lines"
    THEN LET cur == PageLines(SplitText(file[page_num]))
         IN  LinesUpTo(file, page_num - 1)
               \o SubSeq(cur, 1, Len(cur) - Len(lines))
    ELSE LinesUpTo(file, page_num)

\* the mappings parse_voter_line returns for the lines ls, in their order
RECURSIVE ParsedOf(_)
ParsedOf(ls) ==
  IF ls = <<>> THEN <<>>
  ELSE LET r == parse_voter_line(Head(ls))
       IN  (IF IsNone(r) THEN <<>> ELSE <<r>>) \o ParsedOf(Tail(ls))

\* the identifiers of recs in the order of their first occurrence
RECURSIVE FirstSeenIds(_)
FirstSeenIds(recs) ==
  IF recs = <<>> THEN <<>>
  ELSE LET before == FirstSeenIds(SubSeq(recs, 1, Len(recs) - 1))
           id == StateId(recs[Len(recs)])
       IN  IF \E i \in 1..Len(before) : before[i] = id
             THEN before ELSE Append(before, id)

UniqueIds(rows) ==
  \A i, j \in 1..Len(rows) : i # j => StateId(rows[i]) # StateId(rows[j])

InPass == pc \in {"pages", "lines", "write"}

\* C1: the frame convert_single_pdf serializes holds no two records with the
\* same State ID; each of its records is the mapping of the first line of the
\* document, in document order, that carries its State ID; every State ID of
\* the document is kept; and what is written to the file is that frame.
C1_DedupKeepsFirst ==
  /\ pc = "write" =>
       LET all == ParsedOf(AllLines(file))
       IN  /\ UniqueIds(df)
           /\ \A i \in 1..Len(df) :
                \E k \in 1..Len(all) :
                  /\ df[i] = all[k]
                  /\ \A j \in 1..(k - 1) : StateId(all[j]) # StateId(all[k])
           /\ \A k \in 1..Len(all) :
                \E i \in 1..Len(df) : StateId(df[i]) = StateId(all[k])
  /\ \A o \in OutputPaths : UniqueIds(csv[o].rows)

\* C1 witness: a frame about to be written from an accumulator that held a
\* later record with the same State ID and other fields, now discarded
C1_Witness ==
  /\ pc = "write"
  /\ \E i \in 1..Len(df), k \in 1..Len(records) :
       /\ StateId(records[k]) = StateId(df[i])
       /\ records[k] # df[i]

\* the last two messages of o are the failure report
ReportsFailure(o) ==
  /\ Len(o) >= 2
  /\ SubSeq(o, Len(o) - 1, Len(o)) = ErrorProcessing

FailurePending ==
  \/ pc = "exists" /\ file = Unopenable
  \/ AtPage /\ file[page_num + 1] = "fail"

\* C2: when the document cannot be opened or a page's text extraction fails
\* (also after earlier pages yielded records), the next step of the program,
\* unless the user interrupts it, ends the call with the failure report,
\* return value 0 and no output file written; in bulk mode control is back in
\* the loop at the next file of the same list, and the loop, while files
\* remain, calls convert_single_pdf for the next one.
C2_AbortReturnsZero ==
  /\ [][ (FailurePending /\ exc' = "none") =>
           /\ ret' = 0
           /\ csv' = csv
           /\ ReportsFailure(out')
           /\ (mode = "bulk" =>
                 pc' = "bulk" /\ idx' = idx + 1 /\ pdf_files' = pdf_files) ]_vars
  /\ [][ (pc = "bulk" /\ idx <= Len(pdf_files) /\ exc' = "none") =>
           pc' = "exists" /\ pdf_path' = pdf_files[idx] ]_vars

\* C2 witness: bulk mode, a call has just ended with the failure report and 0,
\* nothing was written, and a file remains to be processed
C2_Witness ==
  /\ mode = "bulk"
  /\ pc = "bulk"
  /\ ReportsFailure(out)
  /\ ret = 0
  /\ csv = NoFiles
  /\ idx <= Len(pdf_files)

NoLineMatches(f) ==
  /\ \A n \in 1..Len(f) : f[n] # "fail"
  /\ ParsedOf(AllLines(f)) = <<>>

\* C3: when every page of an opened document has been read and none of its
\* lines matches the template, the call returns 0, writes no file, and the
\* only report is the printed "No voter records found" notice: it is not the
\* failure report and nothing is logged as an error.
C3_NoRecordsNotice ==
  [][ (AfterPages /\ NoLineMatches(file)) =>
        /\ ret' = 0
        /\ csv' = csv
        /\ out' = <<Msg("print", "No voter records found")>>
        /\ ~ReportsFailure(out')
        /\ \A i \in 1..Len(out') : out'[i][1] # "logger.error" ]_vars

\* C3 witness: the call has returned 0 with the notice and no file exists
C3_Witness ==
  /\ pc = "menu"
  /\ ret = 0
  /\ out = <<Msg("print", "No voter records found")>>
  /\ csv = NoFiles

\* C4: no failure of a document's conversion escapes convert_single_pdf as an
\* exception: the process is never ended by an exception (other than the
\* user's interrupt) raised in convert_single_pdf.
C4_NoEscape ==
  ~(pc = "exited" /\ excFrom = "convert_single_pdf" /\ exc # "KeyboardInterrupt")

\* C5 as claimed: an unexpected exception does not end the process; it ends
\* only by the exit choice or by an interrupt.
C5_LoopContinues ==
  pc = "exited" => exc \in {"none", "KeyboardInterrupt"}

\* C5: an unexpected (non-interrupt) exception raised in an iteration of the
\* menu loop is caught by the handler around main() and reported, and the
\* process then ends without showing the menu again; the process ends only by
\* the exit choice, by an interrupt or by such an exception.
C5_ErrorEndsProcess ==
  /\ exc \notin {"none", "KeyboardInterrupt"} =>
       /\ pc = "exited"
       /\ out = <<Msg("logger.error", "Unexpected error"),
                  Msg("print", "Unexpected error")>>
  /\ pc = "exited" =>
       \/ exc # "none"
       \/ out = <<Msg("print", "Thank you")>>

\* C5 witness: the process has ended on an exception raised by input()
C5_Witness ==
  /\ pc = "exited"
  /\ exc = "EOFError"
  /\ excFrom = "main"

\* ---- parse_voter_line ----
TheLine == Strip(LineOf(input))

StartsWithKeyword(line) == \E kw \in SkipKeywords : OccursAt(line, kw, 1)

ContainsKeyword(line) ==
  \E kw \in SkipKeywords : \E i \in 1..Len(line) : OccursAt(line, kw, i)

IsPlainName(n) ==
  /\ n # <<>>
  /\ n[1] # " " /\ n[Len(n)] # " "
  /\ \A i \in 1..Len(n) : n[i] \in LetterChars \cup {" "}
  /\ \A i \in 1..(Len(n) - 1) : ~(n[i] = " " /\ n[i + 1] = " ")

\* sequence number, identifier and precinct code are of the required form
ValidFrame(in) ==
  /\ in.no \in ValidNo
  /\ in.id \in ValidId
  /\ in.precinct \in ValidPrecinct
  /\ Len(LineOf(in)) >= MinLineLen

\* a record line without polling place
ValidRecordLine(in) ==
  /\ ValidFrame(in)
  /\ IsPlainName(in.name)
  /\ in.place = <<>>

FourFields == {"No", "Name", "State ID", "Precinct"}

\* C6 as claimed: a line with a header keyword anywhere in it gives no match.
C6_KeywordAnywhere ==
  (pc = "parsed" /\ ContainsKeyword(TheLine)) => IsNone(result)

\* C6: a line that begins with a header keyword (ignoring case) gives no
\* match; a keyword further inside the line does not reject it: a line that
\* is otherwise a valid record line is returned as a record.
C6_KeywordAtStart ==
  pc = "parsed" =>
    /\ StartsWithKeyword(TheLine) => IsNone(result)
    /\ (ValidRecordLine(input) /\ ContainsKeyword(TheLine)) => ~IsNone(result)

\* C6 witness: a parsed line that begins with a keyword and is otherwise laid
\* out as a record
C6_Witness ==
  /\ pc = "parsed"
  /\ StartsWithKeyword(TheLine)
  /\ input.id \in ValidId
  /\ input.precinct \in ValidPrecinct
  /\ input.place = <<>>
  /\ IsNone(result)

\* C7 as claimed: a line with a polling place between identifier and precinct
\* code gives a mapping with that polling place and the name of the line.
C7_PollingPlaceField ==
  (pc = "parsed" /\ ValidFrame(input) /\ IsPlainName(input.name)
     /\ input.place # <<>>) =>
    /\ ~IsNone(result)
    /\ "Polling Place" \in DOMAIN result
    /\ result["Polling Place"] = input.place
    /\ result["Name"] = input.name

\* C7: the template has no polling-place field.  A line with free text
\* between the identifier and the precinct code gives no match, unless that
\* text itself begins with a precinct code "S <code>", which is then taken
\* as the precinct; no mapping has a polling-place field; and the name is the
\* shortest that lets the rest of the template match: a name that holds an
\* identifier and a precinct code of its own is cut before them.
C7_NoPollingPlace ==
  pc = "parsed" =>
    /\ (IsPlainName(input.name) /\ input.place = PlaceCentral) => IsNone(result)
    /\ (ValidFrame(input) /\ IsPlainName(input.name) /\ input.place = PlaceSMain) =>
         /\ ~IsNone(result)
         /\ result["Name"] = input.name
         /\ result["State ID"] = input.id
         /\ result["Precinct"] = PlaceSMain
    /\ ~IsNone(result) => DOMAIN result = FourFields
    /\ (input.no \in ValidNo /\ input.name = NestedName) =>
         /\ ~IsNone(result)
         /\ result["Name"] = <<"A","L">>
         /\ result["State ID"] = <<"1","1","1","2","2","2","3","3","3">>
         /\ result["Precinct"] = <<"S"," ","9">>

\* C7 witness: the line "5  JANE DOE  987654321  CENTRAL LIBRARY  S PCT.2"
\* has been parsed
C7_Witness ==
  /\ pc = "parsed"
  /\ input = ExampleJane
  /\ IsNone(result)

\* C8: a line of at least the minimum length made of a 1-4 digit sequence
\* number, a name, a 9-12 digit identifier and a precinct code "S <code>"
\* gives a mapping with exactly these four substrings, trimmed, and no
\* polling place; the identifier of every mapping is 9 to 12 digits.
C8_FourFields ==
  pc = "parsed" =>
    /\ ValidRecordLine(input) =>
         result = ("No" :> input.no) @@ ("Name" :> input.name)
                    @@ ("State ID" :> input.id) @@ ("Precinct" :> input.precinct)
    /\ ~IsNone(result) =>
         /\ Len(result["State ID"]) >= MinIdDigits
         /\ Len(result["State ID"]) <= MaxIdDigits
         /\ \A i \in 1..Len(result["State ID"]) :
              result["State ID"][i] \in DigitChars

\* C8 witness: the line "12  JOHN SMITH  123456789  S PCT.4" has been parsed
C8_Witness ==
  /\ pc = "parsed"
  /\ input = ExampleJohn
  /\ ~IsNone(result)
  /\ result["Name"] = ExampleJohn.name

\* C9: in bulk mode each document has its own output file and is converted
\* once: when a call is about to write its output file, named by its stem
\* plus "_converted.csv", no call of the same batch has written that path.
C9_OwnOutputFile ==
  (mode = "bulk" /\ pc = "write") =>
    /\ output_csv = Stem(pdf_path) \o ConvertedSuffix
    /\ csv[output_csv] = NoFile

\* C10: the pass visits the pages in ascending order and the lines of a page
\* from top to bottom, and only appends to the accumulator: at every point
\* the accumulator is the sequence of mappings of the lines seen so far, a
\* step moves on by at most one page and at most one appended record, and the
\* rows to be written are in the order of the first occurrence of their
\* identifiers in the document.
C10_State ==
  /\ InPass => records = ParsedOf(SeenLines)
  /\ pc = "write" =>
       [i \in 1..Len(df) |-> StateId(df[i])]
         = FirstSeenIds(ParsedOf(AllLines(file)))

C10_Step ==
  (InPass /\ InPass') =>
    /\ page_num' \in {page_num, page_num + 1}
    /\ \/ records' = records
       \/ Len(records') = Len(records) + 1
            /\ SubSeq(records', 1, Len(records)) = records

C10_DocumentOrder == []C10_State /\ [][C10_Step]_vars

\* C10 witness: a frame about to be written whose records come from two
\* pages and whose second row was first seen before a discarded duplicate
C10_Witness ==
  /\ pc = "write"
  /\ page_num = 2
  /\ Len(df) >= 2
  /\ Len(records) > Len(df)

=============================================================================
